---------------------------- MODULE Spec2Model ----------------------------
(***************************************************************************)
(* A model of the weather-map viewer: the MapContainer / MapProvider       *)
(* lifecycle (script loading, Windy initialisation, zoom-driven view       *)
(* switch, distance measurement), the WindyService wrapper, the            *)
(* useDataFetching hook and the environment configuration bootstrap.       *)
(*                                                                         *)
(* Each subsystem has its own specification over the shared variables:     *)
(*   SpecMap      MapContainer + MapProvider                               *)
(*   SpecService  WindyService                                             *)
(*   SpecFetch    useDataFetching                                          *)
(*   SpecEnv      index.tsx bootstrap + config/env                         *)
(***************************************************************************)
EXTENDS Integers, Sequences, FiniteSets, TLC

(***************************************************************************)
(* Bounds of the model.                                                    *)
(***************************************************************************)
\* Sub-steps per zoom level: zoom z is represented by the integer z * ZoomUnit.
ZoomUnit == 4
\* Number of map clicks explored.
MaxClicks == 3
\* Number of distinct click positions.
MaxPoint == 2

VARIABLES
  \* ---- MapContainer / MapProvider ----
  mounted,           \* the MapContainer has been mounted
  windowL,           \* window.L is defined
  windowWindyInit,   \* typeof window.windyInit === 'function'
  loadPc,            \* position of loadScripts
  leafletScripts,    \* number of Leaflet script tags injected
  windyScripts,      \* number of Windy script tags injected
  leafletResolved,   \* loadScripts is past the Leaflet block
  scriptsLoaded,     \* useState scriptsLoaded
  initAttemptedRef,  \* useRef initAttemptedRef
  loadQ,             \* pending runs of the loadScripts effect
  initQ,             \* pending runs of the init effect (scriptsLoaded of the render that scheduled each)
  windyInitCalls,    \* number of invocations of window.windyInit
  cbPending,         \* windyInit returned, its callback has not fired yet
  leafletMap,        \* context: leafletMap
  windyInstance,     \* context: windyInstance
  windyService,      \* context: windyService
  isMapLoading,      \* context: isMapLoading
  mapError,          \* context: mapError (its message) or NoError
  currentZoom,       \* context: currentZoom
  ctxMarkers,        \* context: markers (MapProvider)
  showBackupLayer,   \* useState showBackupLayer
  markers,           \* useState markers (MapContainer)
  distance,          \* useState distance
  classProp,         \* className last rendered on the #windy element
  domClass,          \* class list of the #windy element in the DOM
  lastZoomEvent,     \* the zoom handler that ran last and the zoom it was given
  markersOnMap,      \* the click markers (indices of ctxMarkers) that are layers of the Leaflet map
  serviceCleanups,   \* number of windyService.cleanup() calls made by the MapProvider
  unmounted,         \* the MapProvider has been unmounted
  selectedLayer,     \* context: selectedLayer
  visibleLayers,     \* context: visibleLayers
  \* ---- WindyService ----
  service,           \* "none", "constructed", or "failed" (the constructor threw)
  windyApi,          \* the API object given to the constructor: which members it has
  store,             \* the weather engine's key/value store
  overlayLayerOnMap, \* windyApi.map.hasLayer(this.overlayLayer)
  changeListeners,   \* this.changeListeners
  engineCalls,       \* the calls the last operation made on the engine
  delivered,         \* the notifications the last operation delivered to listeners
  lastOp,            \* the last operation called on the service and its argument
  markersLayer,      \* this.markersLayer: whether it was created, and its markers
  opThrew,           \* the last operation threw to its caller
  engineThrew,       \* a function of the engine threw when the last operation called it
  \* ---- useDataFetching ----
  hookMounted,       \* the component using the hook has been mounted
  options,           \* the options the hook is called with on every render
  state,             \* useState<FetchState>
  inflight,          \* the fetchData calls that are awaiting their timer or response
  networkRequests,   \* number of fetch() requests issued
  fetchStarts,       \* number of fetchData calls started
  effectQ,           \* pending runs of the autoFetch effect
  autoFetches,       \* number of fetchData calls made by the autoFetch effect
  now,               \* Date.now()
  \* ---- index.tsx + config/env ----
  nodeEnv,           \* process.env.NODE_ENV
  windowEnv,         \* window._env_
  processEnv,        \* process.env (build time)
  envConfigFile,     \* what /env-config.js assigns to window._env_
  envRaw,            \* the string getEnvVar returned for each key
  env,               \* the exported env object
  bootPc,            \* position of index.tsx
  envScript,         \* state of the env-config script tag
  renderCount,       \* number of ReactDOM.render calls
  \* ---- DataLayer ----
  layerMounted,      \* a DataLayer is mounted on the loaded map (layerRef.current is set)
  layerData,         \* useState data: the ids of the data points, in order
  layerGroup,        \* the circle markers in the layer group
  pointLayersRef,    \* pointLayersRef.current: the marker recorded for an id
  markersCreated     \* number of circle markers created so far

mapVars == << mounted, windowL, windowWindyInit, loadPc, leafletScripts, windyScripts,
              leafletResolved, scriptsLoaded, initAttemptedRef, loadQ, initQ,
              windyInitCalls, cbPending, leafletMap, windyInstance, windyService,
              isMapLoading, mapError, currentZoom, ctxMarkers, showBackupLayer,
              markers, distance, classProp, domClass, lastZoomEvent >>

providerVars == << markersOnMap, serviceCleanups, unmounted, selectedLayer, visibleLayers >>

svcVars == << service, windyApi, store, overlayLayerOnMap, changeListeners, engineCalls,
              delivered, lastOp, markersLayer, opThrew, engineThrew >>

fetchVars == << hookMounted, options, state, inflight, networkRequests, fetchStarts,
                effectQ, autoFetches, now >>

envVars == << nodeEnv, windowEnv, processEnv, envConfigFile, envRaw, env, bootPc,
              envScript, renderCount >>

dataVars == << layerMounted, layerData, layerGroup, pointLayersRef, markersCreated >>

vars == << mapVars, providerVars, svcVars, fetchVars, envVars, dataVars >>

(***************************************************************************)
(* MapContainer / MapProvider                                              *)
(***************************************************************************)
Null == "null"
\* An optional string (an entry of window._env_ or process.env, an optional
\* field of an options object): undefined, or a string
Undefined == [defined |-> FALSE, value |-> << >>]
Str(chars) == [defined |-> TRUE, value |-> chars]
NoError == "null"
NoEvent == [kind |-> "none", zoom |-> 0]

\* The zoom levels the events report: 9, 10, a fractional zoom between 10 and 11
\* (10 + 1/ZoomUnit), 11, 12.
Zooms == { 9 * ZoomUnit, 10 * ZoomUnit, 10 * ZoomUnit + 1, 11 * ZoomUnit, 12 * ZoomUnit }
Points == 1 .. MaxPoint

\* The Windy API object handed to the windyInit callback, and its map
\* (interface WindyAPI declares map: L.Map).
WindyAPI == "windyAPI"
ApiMap(api) == IF api = WindyAPI THEN "windyAPI.map" ELSE Null

\* const shouldShowDetailedView = zoom > 10
ShouldShowDetailedViewInclusive(zoom) == zoom >= 10 * ZoomUnit
ShouldShowDetailedView(zoom) == zoom > 10 * ZoomUnit

\* turf.distance(from, to): the library's result for the two points, kept symbolic
CalculateDistance(point1, point2) == << point1, point2 >>
\* distance = null
NoDistance == << >>

\* The three return statements of the component: loading, error, main view.
ViewWithoutLoading(loading, err) ==
  IF err # NoError THEN "error" ELSE "main"
View(loading, err) ==
  IF loading THEN "loading" ELSE IF err # NoError THEN "error" ELSE "main"

\* className of the #windy element in the view rendered ("none": no such element)
ClassName(view, backup) ==
  IF view = "loading" THEN "windy-container"
  ELSE IF view = "error" THEN "none"
  ELSE IF backup THEN "windy-container windy-hidden" ELSE "windy-container "

ClassTokens(prop) ==
  IF prop = "none" THEN {}
  ELSE IF prop = "windy-container windy-hidden" THEN {"windy-container", "windy-hidden"}
  ELSE {"windy-container"}

\* React writes the class attribute only when the className prop changed.
CommitClass(oldProp, oldDom, newProp) ==
  IF newProp = oldProp THEN oldDom ELSE ClassTokens(newProp)

\* document.getElementById('windy')?.classList.add / remove ('windy-hidden')
ClassListOp(op, prop, dom) ==
  IF prop = "none" \/ op = "none" THEN dom
  ELSE IF op = "add" THEN dom \cup {"windy-hidden"}
  ELSE dom \ {"windy-hidden"}

\* The re-render that follows the state updates of a handler, then the
\* handler's direct classList operation on the DOM.
Rendered(op) ==
  LET newProp == ClassName(View(isMapLoading', mapError'), showBackupLayer')
  IN /\ classProp' = newProp
     /\ domClass' = ClassListOp(op, newProp, CommitClass(classProp, domClass, newProp))

\* windyContainerRef.current: the #windy element of the rendered view
WindyContainerRef == IF classProp = "none" THEN Null ELSE "div#windy"

\* Dependency lists of the two effects (the state setters are stable).
LoadEffectDepsStale(sl, err) == << err >>
LoadEffectDeps(sl, err) == << >>
InitEffectDepsStale(sl, err) == << sl, err >>
InitEffectDeps(sl, err) == << sl >>

\* An effect is run again after a render in which its dependencies changed.
EffectsScheduled(baseLoadQ, baseInitQ) ==
  /\ loadQ' = IF LoadEffectDeps(scriptsLoaded', mapError') # LoadEffectDeps(scriptsLoaded, mapError)
              THEN baseLoadQ + 1 ELSE baseLoadQ
  /\ initQ' = IF InitEffectDeps(scriptsLoaded', mapError') # InitEffectDeps(scriptsLoaded, mapError)
              THEN Append(baseInitQ, scriptsLoaded') ELSE baseInitQ

\* MapProvider "Cleanup on unmount" effect: its dependency array
CleanupEffectDeps(map, ms, svc) == << map, ms, svc >>

\* The function that effect returns, closed over the leafletMap, markers and
\* windyService of the current render; layers is what the map holds.
ProviderCleanup(layers) ==
  /\ markersOnMap' = IF leafletMap # Null
                      THEN layers \ (1 .. Len(ctxMarkers))
                      ELSE layers
  /\ serviceCleanups' = IF windyService # Null
                         THEN serviceCleanups + 1
                         ELSE serviceCleanups

\* A render with changed dependencies runs the cleanup of the previous render's
\* effect before the effect runs again (React flushes it before any later
\* update).  The renders inside one handler that precede its last one leave
\* markers empty and windyService null, so their cleanups do nothing.
CleanupEffect(layers) ==
  IF mounted /\ CleanupEffectDeps(leafletMap', ctxMarkers', windyService')
                  # CleanupEffectDeps(leafletMap, ctxMarkers, windyService)
    THEN ProviderCleanup(layers)
    ELSE /\ markersOnMap' = layers
         /\ serviceCleanups' = serviceCleanups

\* First render of <MapProvider><MapContainer/></MapProvider>: the loading
\* view; both effects are scheduled.
Mount ==
  /\ ~mounted
  /\ mounted' = TRUE
  /\ showBackupLayer' = ShouldShowDetailedView(currentZoom)
  /\ loadQ' = 1
  /\ initQ' = << scriptsLoaded >>
  /\ UNCHANGED << windowL, windowWindyInit, loadPc, leafletScripts, windyScripts,
                  leafletResolved, scriptsLoaded, initAttemptedRef, windyInitCalls,
                  cbPending, leafletMap, windyInstance, windyService, isMapLoading,
                  mapError, currentZoom, ctxMarkers, markers, distance, lastZoomEvent >>
  /\ Rendered("none")
  /\ CleanupEffect(markersOnMap)
  /\ UNCHANGED << unmounted, selectedLayer, visibleLayers >>
  /\ UNCHANGED << svcVars, fetchVars, envVars, dataVars >>

\* loadScripts from "Load Windy API if not loaded" to its end or its next await.
WindyBlock ==
  IF ~windowWindyInit'
    THEN /\ windyScripts' = windyScripts + 1
         /\ loadPc' = "awaitWindy"
         /\ scriptsLoaded' = scriptsLoaded
    ELSE /\ windyScripts' = windyScripts
         /\ loadPc' = "done"
         /\ scriptsLoaded' = TRUE

\* The loadScripts effect: loadScripts() up to its first await.
LoadScripts ==
  /\ mounted /\ loadQ > 0
  /\ loadPc \in {"idle", "done", "failed"}
  /\ UNCHANGED << windowL, windowWindyInit >>
  /\ IF ~windowL
       THEN /\ leafletScripts' = leafletScripts + 1
            /\ loadPc' = "awaitLeaflet"
            /\ UNCHANGED << windyScripts, scriptsLoaded, leafletResolved >>
       ELSE /\ leafletResolved' = TRUE
            /\ leafletScripts' = leafletScripts
            /\ WindyBlock
  /\ UNCHANGED << mounted, initAttemptedRef, windyInitCalls, cbPending, leafletMap,
                  windyInstance, windyService, isMapLoading, mapError, currentZoom,
                  ctxMarkers, showBackupLayer, markers, distance, lastZoomEvent >>
  /\ EffectsScheduled(loadQ - 1, initQ)
  /\ Rendered("none")
  /\ CleanupEffect(markersOnMap)
  /\ UNCHANGED << unmounted, selectedLayer, visibleLayers >>
  /\ UNCHANGED << svcVars, fetchVars, envVars, dataVars >>

\* script.onload of the Leaflet tag: resolve(), loadScripts continues.
LeafletLoaded ==
  /\ loadPc = "awaitLeaflet"
  /\ windowL' = TRUE
  /\ leafletResolved' = TRUE
  /\ UNCHANGED << windowWindyInit, leafletScripts >>
  /\ WindyBlock
  /\ UNCHANGED << mounted, initAttemptedRef, windyInitCalls, cbPending, leafletMap,
                  windyInstance, windyService, isMapLoading, mapError, currentZoom,
                  ctxMarkers, showBackupLayer, markers, distance, lastZoomEvent >>
  /\ EffectsScheduled(loadQ, initQ)
  /\ Rendered("none")
  /\ CleanupEffect(markersOnMap)
  /\ UNCHANGED << unmounted, selectedLayer, visibleLayers >>
  /\ UNCHANGED << svcVars, fetchVars, envVars, dataVars >>

\* The catch block of loadScripts.
LoadFailed(message) ==
  /\ loadPc' = "failed"
  /\ mapError' = message
  /\ UNCHANGED << mounted, windowL, leafletScripts, windyScripts, leafletResolved,
                  scriptsLoaded, initAttemptedRef, windyInitCalls, cbPending, leafletMap,
                  windyInstance, windyService, isMapLoading, currentZoom, ctxMarkers,
                  showBackupLayer, markers, distance, lastZoomEvent >>
  /\ EffectsScheduled(loadQ, initQ)
  /\ Rendered("none")
  /\ CleanupEffect(markersOnMap)
  /\ UNCHANGED << unmounted, selectedLayer, visibleLayers >>
  /\ UNCHANGED << svcVars, fetchVars, envVars, dataVars >>

\* script.onerror of the Leaflet tag.
LeafletError ==
  /\ loadPc = "awaitLeaflet"
  /\ UNCHANGED windowWindyInit
  /\ LoadFailed("Failed to load Leaflet")

\* script.onload of the Windy tag, the script having defined window.windyInit.
WindyLoaded ==
  /\ loadPc = "awaitWindy"
  /\ windowWindyInit' = TRUE
  /\ loadPc' = "done"
  /\ scriptsLoaded' = TRUE
  /\ UNCHANGED << mounted, windowL, leafletScripts, windyScripts, leafletResolved,
                  initAttemptedRef, windyInitCalls, cbPending, leafletMap,
                  windyInstance, windyService, isMapLoading, mapError, currentZoom,
                  ctxMarkers, showBackupLayer, markers, distance, lastZoomEvent >>
  /\ EffectsScheduled(loadQ, initQ)
  /\ Rendered("none")
  /\ CleanupEffect(markersOnMap)
  /\ UNCHANGED << unmounted, selectedLayer, visibleLayers >>
  /\ UNCHANGED << svcVars, fetchVars, envVars, dataVars >>

\* script.onload of the Windy tag, window.windyInit still not a function.
WindyLoadedWithoutInit ==
  /\ loadPc = "awaitWindy"
  /\ UNCHANGED windowWindyInit
  /\ LoadFailed("Windy API loaded but windyInit function not found")

\* script.onerror of the Windy tag.
WindyError ==
  /\ loadPc = "awaitWindy"
  /\ UNCHANGED windowWindyInit
  /\ LoadFailed("Failed to load Windy API")

\* Another script of the page removes the global between the load and the
\* initialisation (the case initializeWindy checks for).
WindyInitRemoved ==
  /\ mounted /\ windowWindyInit /\ windyInitCalls = 0 /\ loadPc = "done"
  /\ windowWindyInit' = FALSE
  /\ UNCHANGED << mounted, windowL, loadPc, leafletScripts, windyScripts, leafletResolved,
                  scriptsLoaded, initAttemptedRef, loadQ, initQ, windyInitCalls, cbPending,
                  leafletMap, windyInstance, windyService, isMapLoading, mapError,
                  currentZoom, ctxMarkers, showBackupLayer, markers, distance,
                  classProp, domClass, lastZoomEvent >>
  /\ CleanupEffect(markersOnMap)
  /\ UNCHANGED << unmounted, selectedLayer, visibleLayers >>
  /\ UNCHANGED << svcVars, fetchVars, envVars, dataVars >>

\* if (initAttemptedRef.current || !scriptsLoaded || !windyContainerRef.current) return;
InitGuardReturnsNoLoadCheck(attempted, loaded, container) ==
  attempted \/ container = Null
InitGuardReturns(attempted, loaded, container) ==
  attempted \/ ~loaded \/ container = Null

\* if (typeof window.windyInit !== 'function') throw ...
WindyInitMissing(present) == ~present

\* The init effect: the guard, then initializeWindy().
InitEffect ==
  /\ mounted /\ loadQ = 0 /\ initQ # << >>
  /\ IF InitGuardReturns(initAttemptedRef, Head(initQ), WindyContainerRef)
       THEN /\ UNCHANGED << initAttemptedRef, windyInitCalls, cbPending, mapError >>
       ELSE IF WindyInitMissing(windowWindyInit)
         THEN /\ initAttemptedRef' = FALSE
              /\ mapError' = "windyInit function not available"
              /\ UNCHANGED << windyInitCalls, cbPending >>
         ELSE /\ windyInitCalls' = windyInitCalls + 1
              /\ \/ /\ initAttemptedRef' = TRUE          \* windyInit returns
                    /\ cbPending' = TRUE
                    /\ UNCHANGED mapError
                 \/ /\ initAttemptedRef' = FALSE         \* windyInit throws
                    /\ mapError' = "windyInit threw"
                    /\ UNCHANGED cbPending
  /\ UNCHANGED scriptsLoaded
  /\ UNCHANGED << mounted, windowL, windowWindyInit, loadPc, leafletScripts, windyScripts,
                  leafletResolved, leafletMap, windyInstance, windyService, isMapLoading,
                  currentZoom, ctxMarkers, showBackupLayer, markers, distance,
                  lastZoomEvent >>
  /\ EffectsScheduled(loadQ, Tail(initQ))
  /\ Rendered("none")
  /\ CleanupEffect(markersOnMap)
  /\ UNCHANGED << unmounted, selectedLayer, visibleLayers >>
  /\ UNCHANGED << svcVars, fetchVars, envVars, dataVars >>

\* catch (err) around new WindyService(...): setIsMapLoading(false)
ServiceCatchLoadingKept(loading) == loading
ServiceCatchLoading(loading) == FALSE

\* {windyService && !showBackupLayer && <MapControls />} in the main view
MapControlsShown(view, svc, backup) == view = "main" /\ svc # Null /\ ~backup

\* BackupLayer's props: minZoom = 11, maxZoom = 19 by default; MapContainer
\* passes only url and attribution, so the defaults apply.
minZoom == 11
maxZoom == 19

\* {leafletMap && <BackupLayer .../>} in the main view; BackupLayer's effect
\* adds the tile layer to leafletMap whenever leafletMap is set.
BackupLayerMounted(view, map) == view = "main" /\ map # Null

\* L.tileLayer(url, {..., minZoom, maxZoom}).addTo(leafletMap): a Leaflet tile
\* layer loads tiles of the tile zoom Math.round(zoom) of the map, and none when
\* that tile zoom is below minZoom or above maxZoom.  BackupLayer does nothing
\* else with the zoom and never reads showBackupLayer.
TileZoom(zoom) == (2 * zoom + ZoomUnit) \div (2 * ZoomUnit)
BackupTilesShown(view, map, zoom) ==
  /\ BackupLayerMounted(view, map)
  /\ minZoom <= TileZoom(zoom)
  /\ TileZoom(zoom) <= maxZoom

\* The callback passed to windyInit (serviceOk: new WindyService(...) did not throw).
WindyInitCallback ==
  /\ cbPending
  /\ cbPending' = FALSE
  /\ windyInstance' = WindyAPI
  /\ leafletMap' = ApiMap(WindyAPI)
  /\ \E serviceOk \in BOOLEAN :
       /\ windyService' = IF serviceOk THEN "WindyService" ELSE windyService
       /\ isMapLoading' = IF serviceOk THEN FALSE ELSE ServiceCatchLoading(isMapLoading)
  /\ UNCHANGED << scriptsLoaded, mapError, showBackupLayer >>
  /\ UNCHANGED << mounted, windowL, windowWindyInit, loadPc, leafletScripts, windyScripts,
                  leafletResolved, initAttemptedRef, windyInitCalls, currentZoom,
                  ctxMarkers, markers, distance, lastZoomEvent >>
  /\ EffectsScheduled(loadQ, initQ)
  /\ Rendered("none")
  /\ CleanupEffect(markersOnMap)
  /\ UNCHANGED << unmounted, selectedLayer, visibleLayers >>
  /\ UNCHANGED << svcVars, fetchVars, envVars, dataVars >>

\* broadcast.on('redrawFinished', ...) with store.get('mapCoords').zoom = zoom
RedrawFinished(zoom) ==
  /\ windyInstance # Null
  /\ currentZoom' = zoom
  /\ showBackupLayer' = ShouldShowDetailedView(zoom)
  /\ lastZoomEvent' = [kind |-> "redrawFinished", zoom |-> zoom]
  /\ UNCHANGED << isMapLoading, mapError, scriptsLoaded >>
  /\ UNCHANGED << mounted, windowL, windowWindyInit, loadPc, leafletScripts, windyScripts,
                  leafletResolved, initAttemptedRef, windyInitCalls, cbPending, leafletMap,
                  windyInstance, windyService, ctxMarkers, markers, distance >>
  /\ EffectsScheduled(loadQ, initQ)
  /\ Rendered(IF ApiMap(windyInstance) # Null /\ ShouldShowDetailedView(zoom)
              THEN "add" ELSE "remove")
  /\ CleanupEffect(markersOnMap)
  /\ UNCHANGED << unmounted, selectedLayer, visibleLayers >>
  /\ UNCHANGED << svcVars, fetchVars, envVars, dataVars >>

\* handleZoomEnd with leafletMap.getZoom() = newZoom
HandleZoomEnd(newZoom) ==
  /\ leafletMap # Null
  /\ currentZoom' = newZoom
  /\ showBackupLayer' = ShouldShowDetailedView(newZoom)
  /\ lastZoomEvent' = [kind |-> "zoomend", zoom |-> newZoom]
  /\ UNCHANGED << isMapLoading, mapError, scriptsLoaded >>
  /\ UNCHANGED << mounted, windowL, windowWindyInit, loadPc, leafletScripts, windyScripts,
                  leafletResolved, initAttemptedRef, windyInitCalls, cbPending, leafletMap,
                  windyInstance, windyService, ctxMarkers, markers, distance >>
  /\ EffectsScheduled(loadQ, initQ)
  /\ Rendered(IF ShouldShowDetailedView(newZoom) THEN "add" ELSE "remove")
  /\ CleanupEffect(markersOnMap)
  /\ UNCHANGED << unmounted, selectedLayer, visibleLayers >>
  /\ UNCHANGED << svcVars, fetchVars, envVars, dataVars >>

\* MapProvider.handleMapClick: a marker is put on the map and appended to the
\* provider's markers.
HandleMapClick(latlng) ==
  IF leafletMap = Null THEN ctxMarkers' = ctxMarkers
  ELSE ctxMarkers' = Append(ctxMarkers, latlng)

\* MapContainer.onMapClick for a click at latlng
OnMapClick(latlng) ==
  /\ leafletMap # Null
  /\ Len(ctxMarkers) < MaxClicks
  /\ HandleMapClick(latlng)
  /\ distance' = IF Len(markers) = 1
                 THEN CalculateDistance(markers[1], latlng)
                 ELSE distance
  /\ UNCHANGED << markers, isMapLoading, mapError, scriptsLoaded, showBackupLayer >>
  /\ UNCHANGED << mounted, windowL, windowWindyInit, loadPc, leafletScripts, windyScripts,
                  leafletResolved, initAttemptedRef, windyInitCalls, cbPending, leafletMap,
                  windyInstance, windyService, currentZoom, lastZoomEvent >>
  /\ EffectsScheduled(loadQ, initQ)
  /\ Rendered("none")
  /\ CleanupEffect(IF leafletMap = Null THEN markersOnMap
                   ELSE markersOnMap \cup {Len(ctxMarkers) + 1})
  /\ UNCHANGED << unmounted, selectedLayer, visibleLayers >>
  /\ UNCHANGED << svcVars, fetchVars, envVars, dataVars >>

MapNext ==
  \/ Mount
  \/ LoadScripts
  \/ LeafletLoaded
  \/ LeafletError
  \/ WindyLoaded
  \/ WindyLoadedWithoutInit
  \/ WindyError
  \/ WindyInitRemoved
  \/ InitEffect
  \/ WindyInitCallback
  \/ \E zoom \in Zooms : RedrawFinished(zoom)
  \/ \E newZoom \in Zooms : HandleZoomEnd(newZoom)
  \/ \E latlng \in Points : OnMapClick(latlng)

\* The MapProvider is unmounted: the cleanup of its effect runs.  What the
\* page does afterwards is not modelled.
Unmount ==
  /\ mounted /\ ~unmounted
  /\ unmounted' = TRUE
  /\ mounted' = FALSE
  /\ ProviderCleanup(markersOnMap)
  /\ UNCHANGED << windowL, windowWindyInit, loadPc, leafletScripts, windyScripts,
                  leafletResolved, scriptsLoaded, initAttemptedRef, loadQ, initQ,
                  windyInitCalls, cbPending, leafletMap, windyInstance, windyService,
                  isMapLoading, mapError, currentZoom, ctxMarkers, showBackupLayer,
                  markers, distance, classProp, domClass, lastZoomEvent >>
  /\ UNCHANGED << selectedLayer, visibleLayers >>
  /\ UNCHANGED << svcVars, fetchVars, envVars, dataVars >>

\* The layer ids a consumer of the context selects or toggles
ContextLayerIds == {"wind", "temp"}

\* MapProvider.resetMapState, called by a consumer of the context
ResetMapStateLoadingOff(loading) == FALSE
ResetMapStateLoading(loading) == TRUE
ResetMapState ==
  /\ mounted /\ ~unmounted
  /\ mapError' = NoError
  /\ isMapLoading' = ResetMapStateLoading(isMapLoading)
  /\ UNCHANGED << mounted, windowL, windowWindyInit, loadPc, leafletScripts, windyScripts,
                  leafletResolved, scriptsLoaded, initAttemptedRef, windyInitCalls,
                  cbPending, leafletMap, windyInstance, windyService, currentZoom,
                  ctxMarkers, showBackupLayer, markers, distance, lastZoomEvent >>
  /\ EffectsScheduled(loadQ, initQ)
  /\ Rendered("none")
  /\ CleanupEffect(markersOnMap)
  /\ UNCHANGED << unmounted, selectedLayer, visibleLayers >>
  /\ UNCHANGED << svcVars, fetchVars, envVars, dataVars >>

\* setSelectedLayer(layerId), as MapControls calls it
SetSelectedLayer(layerId) ==
  /\ mounted /\ ~unmounted
  /\ selectedLayer' = layerId
  /\ UNCHANGED << isMapLoading, mapError >>
  /\ UNCHANGED << mounted, windowL, windowWindyInit, loadPc, leafletScripts, windyScripts,
                  leafletResolved, scriptsLoaded, initAttemptedRef, windyInitCalls,
                  cbPending, leafletMap, windyInstance, windyService, currentZoom,
                  ctxMarkers, showBackupLayer, markers, distance, lastZoomEvent >>
  /\ EffectsScheduled(loadQ, initQ)
  /\ Rendered("none")
  /\ CleanupEffect(markersOnMap)
  /\ UNCHANGED << unmounted, visibleLayers >>
  /\ UNCHANGED << svcVars, fetchVars, envVars, dataVars >>

\* MapProvider.toggleLayerVisibility(layerId)
ToggleLayerVisibility(layerId) ==
  /\ mounted /\ ~unmounted
  /\ visibleLayers' = IF \E i \in 1 .. Len(visibleLayers) : visibleLayers[i] = layerId
                       THEN SelectSeq(visibleLayers, LAMBDA id : id # layerId)
                       ELSE Append(visibleLayers, layerId)
  /\ UNCHANGED << isMapLoading, mapError >>
  /\ UNCHANGED << mounted, windowL, windowWindyInit, loadPc, leafletScripts, windyScripts,
                  leafletResolved, scriptsLoaded, initAttemptedRef, windyInitCalls,
                  cbPending, leafletMap, windyInstance, windyService, currentZoom,
                  ctxMarkers, showBackupLayer, markers, distance, lastZoomEvent >>
  /\ EffectsScheduled(loadQ, initQ)
  /\ Rendered("none")
  /\ CleanupEffect(markersOnMap)
  /\ UNCHANGED << unmounted, selectedLayer >>
  /\ UNCHANGED << svcVars, fetchVars, envVars, dataVars >>

\* The MapContainer inside a MapProvider whose consumers use the context's
\* functions and whose parent may unmount it
ProviderNext ==
  \/ ~unmounted /\ MapNext
  \/ ResetMapState
  \/ \E layerId \in ContextLayerIds : SetSelectedLayer(layerId)
  \/ \E layerId \in ContextLayerIds : ToggleLayerVisibility(layerId)
  \/ Unmount

(***************************************************************************)
(* WindyService                                                            *)
(***************************************************************************)
\* Listeners that may be registered; "thrower" throws when it is invoked.
Listeners == {"listenerA", "listenerB", "thrower"}
\* Layer ids a caller passes: two available layers and one that is not available.
LayerIds == {"wind", "temp", "no-such-layer"}
Levels == {"surface", "850h"}

\* The longest listener list explored.
MaxListeners == 3

\* getAvailableLayers(): the ids, each with overlayFunction = id
GetAvailableLayers == << "wind", "temp", "clouds", "pressure", "rainClouds" >>

SeqRange(seq) == { seq[i] : i \in 1 .. Len(seq) }

\* The listener registered as "thrower" throws whenever it is called.
ListenerThrows(listener) == listener = "thrower"

\* try { listener(event, data) } catch (error) { console.error(...) }
ListenerRethrow(thrown) == thrown
ListenerCatch(thrown) == FALSE

\* changeListeners.forEach in notifyListeners: the calls made, and whether an
\* exception left the loop.
RECURSIVE ForEachListener(_, _, _)
ForEachListener(listeners, event, data) ==
  IF listeners = << >> THEN [calls |-> << >>, threw |-> FALSE]
  ELSE LET call == [listener |-> Head(listeners), event |-> event, data |-> data]
       IN IF ListenerCatch(ListenerThrows(Head(listeners)))
            THEN [calls |-> << call >>, threw |-> TRUE]
            ELSE LET rest == ForEachListener(Tail(listeners), event, data)
                 IN [calls |-> << call >> \o rest.calls, threw |-> rest.threw]

\* notifyListeners(event, data): every listener is called in order; one that
\* throws is caught and logged.
NotifyListeners(event, data) == ForEachListener(changeListeners, event, data).calls
NotifyListenersThrew(event, data) == ForEachListener(changeListeners, event, data).threw

\* The weather data lists given to addWeatherMarkers: only their length matters
\* to the markers layer, which gets one marker per element.
MaxWeather == 2
WeatherPoints == {"station"}
WeatherLists == UNION { [1 .. n -> WeatherPoints] : n \in 0 .. MaxWeather }
\* private markersLayer: L.LayerGroup | null = null
NoLayer == [created |-> FALSE, layers |-> << >>]

\* new WindyService(windyApi, options): with a map the two layer groups are
\* added to it and setupBroadcastListeners() registers on broadcast and store
\* (a missing store makes store.on throw a TypeError out of the constructor).
Construct(api) ==
  /\ service = "none"
  /\ windyApi' = api
  /\ service' = IF api.map /\ ~api.store THEN "failed" ELSE "constructed"
  /\ overlayLayerOnMap' = api.map
  /\ engineCalls' = IF api.map
                    THEN << << "layerGroup.addTo", "map", "markersLayer" >>,
                            << "layerGroup.addTo", "map", "overlayLayer" >> >>
                    ELSE << >>
  /\ lastOp' = [name |-> "constructor", arg |-> "none"]
  /\ markersLayer' = [created |-> api.map, layers |-> << >>]
  /\ opThrew' = (api.map /\ ~api.store)
  /\ engineThrew' = FALSE
  /\ UNCHANGED << store, changeListeners, delivered >>
  /\ UNCHANGED << mapVars, providerVars, fetchVars, envVars, dataVars >>

\* addChangeListener(callback)
AddChangeListener(callback) ==
  /\ service = "constructed"
  /\ Len(changeListeners) < MaxListeners
  /\ changeListeners' = Append(changeListeners, callback)
  /\ lastOp' = [name |-> "addChangeListener", arg |-> callback]
  /\ opThrew' = FALSE
  /\ engineThrew' = FALSE
  /\ UNCHANGED markersLayer
  /\ engineCalls' = << >>
  /\ delivered' = << >>
  /\ UNCHANGED << service, windyApi, store, overlayLayerOnMap >>
  /\ UNCHANGED << mapVars, providerVars, fetchVars, envVars, dataVars >>

\* this.changeListeners.filter(cb => cb !== callback)
FilterListenersFirst(listeners, callback) ==
  IF \E i \in 1 .. Len(listeners) : listeners[i] = callback
    THEN LET first == CHOOSE i \in 1 .. Len(listeners) :
                        /\ listeners[i] = callback
                        /\ \A j \in 1 .. i - 1 : listeners[j] # callback
         IN SubSeq(listeners, 1, first - 1) \o SubSeq(listeners, first + 1, Len(listeners))
    ELSE listeners
FilterListeners(listeners, callback) == SelectSeq(listeners, LAMBDA cb : cb # callback)

\* removeChangeListener(callback)
RemoveChangeListener(callback) ==
  /\ service = "constructed"
  /\ changeListeners' = FilterListeners(changeListeners, callback)
  /\ lastOp' = [name |-> "removeChangeListener", arg |-> callback]
  /\ opThrew' = FALSE
  /\ engineThrew' = FALSE
  /\ UNCHANGED markersLayer
  /\ engineCalls' = << >>
  /\ delivered' = << >>
  /\ UNCHANGED << service, windyApi, store, overlayLayerOnMap >>
  /\ UNCHANGED << mapVars, providerVars, fetchVars, envVars, dataVars >>

\* try { ... } catch (error) { console.error(...) } around the body of setActiveLayer
SetActiveLayerRethrow(thrown) == thrown
SetActiveLayerCatch(thrown) == FALSE

\* setActiveLayer(layerId); engine: what the engine's functions do when called
\* ("ok", "storeThrows": store.set throws, "overlayThrows": the overlay function throws)
SetActiveLayer(layerId, engine) ==
  /\ service = "constructed"
  /\ LET storeSetThrows == ~windyApi.store \/ engine = "storeThrows"
         layerFound == layerId \in SeqRange(GetAvailableLayers)
         overlayCalled == ~storeSetThrows /\ layerFound /\ windyApi.overlays
         overlayThrows == overlayCalled /\ engine = "overlayThrows"
     IN /\ engineCalls' =
             (IF windyApi.store THEN << << "store.set", "overlay", layerId >> >> ELSE << >>)
             \o (IF overlayCalled THEN << << "overlays", layerId, "call" >> >> ELSE << >>)
        /\ store' = IF storeSetThrows THEN store ELSE [store EXCEPT !.overlay = layerId]
        /\ delivered' = IF storeSetThrows \/ overlayThrows
                        THEN << >>
                        ELSE NotifyListeners("layerChange", layerId)
        /\ opThrew' = SetActiveLayerCatch(storeSetThrows \/ overlayThrows
                                          \/ NotifyListenersThrew("layerChange", layerId))
        /\ engineThrew' = (storeSetThrows \/ overlayThrows)
  /\ lastOp' = [name |-> "setActiveLayer", arg |-> layerId]
  /\ UNCHANGED markersLayer
  /\ UNCHANGED << service, windyApi, overlayLayerOnMap, changeListeners >>
  /\ UNCHANGED << mapVars, providerVars, fetchVars, envVars, dataVars >>

\* toggleOverlayVisibility(visible)
ToggleOverlayVisibility(visible) ==
  /\ service = "constructed"
  /\ IF ~windyApi.map
       THEN /\ engineCalls' = << >>
            /\ UNCHANGED overlayLayerOnMap
       ELSE IF visible
         THEN /\ engineCalls' = IF ~overlayLayerOnMap
                                THEN << << "layerGroup.addTo", "map", "overlayLayer" >> >>
                                ELSE << >>
              /\ overlayLayerOnMap' = TRUE
         ELSE /\ engineCalls' = << << "map.removeLayer", "map", "overlayLayer" >> >>
              /\ overlayLayerOnMap' = FALSE
  /\ delivered' = << >>
  /\ lastOp' = [name |-> "toggleOverlayVisibility", arg |-> visible]
  /\ opThrew' = FALSE
  /\ engineThrew' = FALSE
  /\ UNCHANGED markersLayer
  /\ UNCHANGED << service, windyApi, store, changeListeners >>
  /\ UNCHANGED << mapVars, providerVars, fetchVars, envVars, dataVars >>

\* setAltitudeLevel(level)
SetAltitudeLevel(level) ==
  /\ service = "constructed"
  /\ IF ~windyApi.store
       THEN /\ engineCalls' = << >>
            /\ delivered' = << >>
            /\ opThrew' = FALSE
            /\ engineThrew' = FALSE
            /\ UNCHANGED store
       ELSE /\ engineCalls' = << << "store.set", "level", level >> >>
            /\ store' = [store EXCEPT !.level = level]
            /\ delivered' = NotifyListeners("levelChange", level)
            /\ opThrew' = NotifyListenersThrew("levelChange", level)
            /\ engineThrew' = FALSE
  /\ lastOp' = [name |-> "setAltitudeLevel", arg |-> level]
  /\ UNCHANGED markersLayer
  /\ UNCHANGED << service, windyApi, overlayLayerOnMap, changeListeners >>
  /\ UNCHANGED << mapVars, providerVars, fetchVars, envVars, dataVars >>

\* markersLayer.clearLayers()
ClearLayersKept(layers) == layers
ClearLayers(layers) == << >>

\* addWeatherMarkers(weatherData)
AddWeatherMarkers(weatherData) ==
  /\ service = "constructed"
  /\ markersLayer' = IF ~windyApi.map \/ ~markersLayer.created
                      THEN markersLayer
                      ELSE [markersLayer EXCEPT !.layers = ClearLayers(@) \o weatherData]
  /\ engineCalls' = << >>
  /\ delivered' = << >>
  /\ opThrew' = FALSE
  /\ engineThrew' = FALSE
  /\ lastOp' = [name |-> "addWeatherMarkers", arg |-> weatherData]
  /\ UNCHANGED << service, windyApi, store, overlayLayerOnMap, changeListeners >>
  /\ UNCHANGED << mapVars, providerVars, fetchVars, envVars, dataVars >>

\* cleanup()
Cleanup ==
  /\ service = "constructed"
  /\ markersLayer' = IF markersLayer.created
                      THEN [markersLayer EXCEPT !.layers = ClearLayers(@)]
                      ELSE markersLayer
  /\ changeListeners' = << >>
  /\ engineCalls' = << >>
  /\ delivered' = << >>
  /\ opThrew' = FALSE
  /\ engineThrew' = FALSE
  /\ lastOp' = [name |-> "cleanup", arg |-> "none"]
  /\ UNCHANGED << service, windyApi, store, overlayLayerOnMap >>
  /\ UNCHANGED << mapVars, providerVars, fetchVars, envVars, dataVars >>

\* The engine fires an event the constructor subscribed to; the handler
\* registered by setupBroadcastListeners calls notifyListeners(event, ...).
EngineEvents == {"redraw", "params", "overlay", "level"}
EngineEvent(event) ==
  /\ service = "constructed" /\ windyApi.map
  /\ delivered' = NotifyListeners(event, "engine")
  /\ opThrew' = NotifyListenersThrew(event, "engine")
  /\ engineThrew' = FALSE
  /\ engineCalls' = << >>
  /\ lastOp' = [name |-> "engineEvent", arg |-> event]
  /\ UNCHANGED << service, windyApi, store, overlayLayerOnMap, changeListeners, markersLayer >>
  /\ UNCHANGED << mapVars, providerVars, fetchVars, envVars, dataVars >>

ServiceNext ==
  \/ \E api \in [map : BOOLEAN, store : BOOLEAN, overlays : BOOLEAN] : Construct(api)
  \/ \E callback \in Listeners : AddChangeListener(callback)
  \/ \E callback \in Listeners : RemoveChangeListener(callback)
  \/ \E layerId \in LayerIds, engine \in {"ok", "storeThrows", "overlayThrows"} :
       SetActiveLayer(layerId, engine)
  \/ \E visible \in BOOLEAN : ToggleOverlayVisibility(visible)
  \/ \E level \in Levels : SetAltitudeLevel(level)
  \/ \E weatherData \in WeatherLists : AddWeatherMarkers(weatherData)
  \/ Cleanup
  \/ \E event \in EngineEvents : EngineEvent(event)

(***************************************************************************)
(* useDataFetching                                                         *)
(***************************************************************************)
\* const USE_MOCK_DATA = true
USE_MOCK_DATA_OFF == FALSE
USE_MOCK_DATA == TRUE

\* The number of fetchData calls explored.
MaxFetches == 3

\* Endpoints are strings, written as sequences of path segments and "/".
Endpoints ==
  { << "weather-stations" >>,
    << "api", "/", "pollution-data" >>,
    << "api", "/", "weather-stations", "/" >>,
    << "sensors" >>,
    << >> }

NoData == << >>
NoTimestamp == << >>

\* MockDataService.getDataPoints(dataset): the ids of the points returned
GetDataPoints(dataset) ==
  IF dataset = << "weather-stations" >> THEN << "station1", "station2", "station3" >>
  ELSE IF dataset = << "pollution-data" >> THEN << "pollution1", "pollution2", "pollution3" >>
  ELSE << "point1", "point2" >>

\* endpoint.split('/').pop(): what follows the last "/"
RECURSIVE SplitPop(_)
SplitPop(endpoint) ==
  IF endpoint = << >> THEN << >>
  ELSE IF endpoint[Len(endpoint)] = "/" THEN << >>
  ELSE SplitPop(SubSeq(endpoint, 1, Len(endpoint) - 1)) \o << endpoint[Len(endpoint)] >>

\* getMockData(): datasetName = endpoint.split('/').pop() || endpoint
GetMockDataWholeEndpoint(endpoint) == GetDataPoints(endpoint)
GetMockData(endpoint) ==
  LET popped == SplitPop(endpoint)
      datasetName == IF popped # << >> THEN popped ELSE endpoint
  IN GetDataPoints(datasetName)

\* The autoFetch effect depends on [autoFetch, fetchData]; fetchData is
\* re-created whenever options (an object built by the caller on each render),
\* buildUrl (which depends on params, defaulted to a new {} on each render) or
\* getMockData changed: on every render.
FetchDataChangedOnRender == TRUE

\* A render of the component: the autoFetch effect is scheduled when its
\* dependencies changed.
HookRendered(baseQ) ==
  effectQ' = IF FetchDataChangedOnRender THEN baseQ + 1 ELSE baseQ

\* First render: the effect runs after it.
HookMount ==
  /\ ~hookMounted
  /\ hookMounted' = TRUE
  /\ effectQ' = 1
  /\ UNCHANGED << options, state, inflight, networkRequests, fetchStarts, autoFetches, now >>
  /\ UNCHANGED << mapVars, providerVars, svcVars, envVars, dataVars >>

\* The customOptions a caller passes to fetchData
NoCustomOptions == [endpoint |-> Undefined, params |-> "none"]
CustomOptions ==
  { [endpoint |-> Str(e), params |-> "none"] : e \in Endpoints }

\* const mergedOptions = { ...options, ...customOptions }
MergedOptions(customOptions) ==
  [endpoint |-> IF customOptions.endpoint.defined THEN customOptions.endpoint.value
                ELSE options.endpoint,
   params |-> IF customOptions.params # "none" THEN customOptions.params ELSE "{}"]

\* fetchData(customOptions) up to its first await: the loading state is set,
\* then either the mock timer is started or the request is issued.
FetchDataStarted(customOptions) ==
  /\ fetchStarts < MaxFetches
  /\ fetchStarts' = fetchStarts + 1
  /\ state' = [state EXCEPT !.loading = TRUE, !.error = Null]
  /\ inflight' = Append(inflight,
                   [kind |-> IF USE_MOCK_DATA THEN "mock" ELSE "network",
                    merged |-> MergedOptions(customOptions),
                    hookEndpoint |-> options.endpoint])
  /\ networkRequests' = IF USE_MOCK_DATA THEN networkRequests ELSE networkRequests + 1
  /\ UNCHANGED << hookMounted, options, now >>
  /\ UNCHANGED << mapVars, providerVars, svcVars, envVars, dataVars >>

\* The autoFetch effect: if (autoFetch) fetchData()
AutoFetchEffect ==
  /\ hookMounted /\ effectQ > 0
  /\ IF options.autoFetch
       THEN /\ FetchDataStarted(NoCustomOptions)
            /\ HookRendered(effectQ - 1)
            /\ autoFetches' = autoFetches + 1
       ELSE /\ effectQ' = effectQ - 1
            /\ UNCHANGED << hookMounted, options, state, inflight, networkRequests,
                            fetchStarts, autoFetches, now >>
            /\ UNCHANGED << mapVars, providerVars, svcVars, envVars, dataVars >>

\* The component calls fetchData(customOptions)
FetchData(customOptions) ==
  /\ hookMounted
  /\ FetchDataStarted(customOptions)
  /\ HookRendered(effectQ)
  /\ UNCHANGED autoFetches

\* The component calls refetch(): fetchData()
Refetch ==
  /\ hookMounted
  /\ FetchDataStarted(NoCustomOptions)
  /\ HookRendered(effectQ)
  /\ UNCHANGED autoFetches

\* The component calls fetchWithParams(newParams): fetchData({ params: newParams })
FetchWithParams(newParams) ==
  /\ hookMounted
  /\ FetchDataStarted([endpoint |-> Undefined, params |-> newParams])
  /\ HookRendered(effectQ)
  /\ UNCHANGED autoFetches

\* The oldest pending call resumes after its await (the 500 ms timer, or the
\* response of the request) and sets the final state.
FetchCompleted ==
  /\ inflight # << >>
  /\ LET call == Head(inflight)
     IN state' = [data |-> IF call.kind = "mock" THEN GetMockData(call.hookEndpoint)
                           ELSE << "response" >>,
                  loading |-> FALSE, error |-> Null, timestamp |-> << now >>]
  /\ inflight' = Tail(inflight)
  /\ now' = now + 1
  /\ HookRendered(effectQ)
  /\ UNCHANGED << hookMounted, options, networkRequests, fetchStarts, autoFetches >>
  /\ UNCHANGED << mapVars, providerVars, svcVars, envVars, dataVars >>

FetchNext ==
  \/ HookMount
  \/ AutoFetchEffect
  \/ \E customOptions \in CustomOptions : FetchData(customOptions)
  \/ Refetch
  \/ \E newParams \in {"{station: 1}"} : FetchWithParams(newParams)
  \/ FetchCompleted

(***************************************************************************)
(* index.tsx and config/env                                                *)
(***************************************************************************)
\* Strings are sequences of characters; a URL is kept as a single token.
\* Numbers are kept in thousandths (10.835 is 10835).
Milli == 10 * 10 * 10

Keys == {"API_URL", "WINDY_API_KEY", "MAP_CENTER_LAT", "MAP_CENTER_LNG",
         "MAP_DEFAULT_ZOOM", "DETAILED_TILES_URL"}
NumericKeys == {"MAP_CENTER_LAT", "MAP_CENTER_LNG", "MAP_DEFAULT_ZOOM"}

\* The strings the variables are given (none has an exponent or spells Infinity).
EnvStrings ==
  { << >>, << "1", "2" >>, << "7", ".", "5" >>, << "a", "b", "c" >>, << "9", "x" >>,
    << "-", "3" >>, << " ", "4" >>, << "." >>, << "-" >>, << ".", "5" >> }
EnvValues == {Undefined} \cup { Str(chars) : chars \in EnvStrings }
\* What /env-config.js may assign for a key.
EnvConfigValues == {Undefined, Str(<< >>), Str(<< "1", "1" >>), Str(<< "x" >>)}

Digits == << "0", "1", "2", "3", "4", "5", "6", "7", "8", "9" >>
IsDigit(c) == \E d \in 1 .. 10 : Digits[d] = c
DigitValue(c) == (CHOOSE d \in 1 .. 10 : Digits[d] = c) - 1

\* The longest prefix of chars made of digits
RECURSIVE DigitPrefix(_)
DigitPrefix(chars) ==
  IF chars = << >> \/ ~IsDigit(Head(chars)) THEN << >>
  ELSE << Head(chars) >> \o DigitPrefix(Tail(chars))

RECURSIVE DigitsValue(_)
DigitsValue(digits) ==
  IF digits = << >> THEN 0
  ELSE 10 * DigitsValue(SubSeq(digits, 1, Len(digits) - 1)) + DigitValue(digits[Len(digits)])

\* The value of a fraction's digits in thousandths (digits past the third are dropped)
FractionMilli(digits) ==
  LET d(i) == IF i <= Len(digits) THEN DigitValue(digits[i]) ELSE 0
  IN 100 * d(1) + 10 * d(2) + d(3)

RECURSIVE SkipSpaces(_)
SkipSpaces(chars) ==
  IF chars # << >> /\ Head(chars) = " " THEN SkipSpaces(Tail(chars)) ELSE chars

\* parseFloat(value): leading white space is skipped, then an optional sign,
\* digits, and an optional "." with digits are read; whatever follows is
\* ignored; NaN when no digit was read.
ParseFloat(value) ==
  LET trimmed == SkipSpaces(value)
      signed == trimmed # << >> /\ Head(trimmed) \in {"-", "+"}
      sign == IF trimmed # << >> /\ Head(trimmed) = "-" THEN -1 ELSE 1
      body == IF signed THEN Tail(trimmed) ELSE trimmed
      int == DigitPrefix(body)
      rest == SubSeq(body, Len(int) + 1, Len(body))
      frac == IF rest # << >> /\ Head(rest) = "." THEN DigitPrefix(Tail(rest)) ELSE << >>
  IN IF int = << >> /\ frac = << >>
       THEN [nan |-> TRUE, milli |-> 0]
       ELSE [nan |-> FALSE, milli |-> sign * (DigitsValue(int) * Milli + FractionMilli(frac))]

\* parseNumber(value, fallback)
ParseNumber(value, fallback) ==
  LET parsed == ParseFloat(value)
  IN IF parsed.nan THEN fallback ELSE parsed.milli

\* getEnvVar(key, fallback), reading window._env_ and process.env
GetEnvVarBuildFirst(key, fallback, runtime, build) ==
  IF build[key].defined THEN build[key].value
  ELSE IF runtime[key].defined /\ runtime[key].value # << >> THEN runtime[key].value
  ELSE fallback
GetEnvVar(key, fallback, runtime, build) ==
  IF runtime[key].defined /\ runtime[key].value # << >> THEN runtime[key].value
  ELSE IF build[key].defined THEN build[key].value
  ELSE fallback

\* The fallback strings of the env object
Fallback(key) ==
  CASE key = "API_URL" -> << "http://localhost:3001/api" >>
    [] key = "WINDY_API_KEY" -> << >>
    [] key = "MAP_CENTER_LAT" -> << "1", "0", ".", "8", "3", "5" >>
    [] key = "MAP_CENTER_LNG" -> << "1", "0", "6", ".", "7", "6", "9" >>
    [] key = "MAP_DEFAULT_ZOOM" -> << "9" >>
    [] key = "DETAILED_TILES_URL" ->
         << "https://server.arcgisonline.com/ArcGIS/rest/services/World_Imagery/MapServer/tile/{z}/{y}/{x}" >>

\* The fallback numbers of the numeric settings
NumberFallback(key) ==
  CASE key = "MAP_CENTER_LAT" -> 10 * Milli + 835
    [] key = "MAP_CENTER_LNG" -> 106 * Milli + 769
    [] key = "MAP_DEFAULT_ZOOM" -> 9 * Milli

\* export const env = { ... }: the strings getEnvVar returns, and the fields
EnvRaw(runtime, build) == [key \in Keys |-> GetEnvVar(key, Fallback(key), runtime, build)]
EnvObject(raw) ==
  [key \in Keys |->
     IF key \in NumericKeys
       THEN [number |-> TRUE, string |-> << >>, milli |-> ParseNumber(raw[key], NumberFallback(key))]
       ELSE [number |-> FALSE, string |-> raw[key], milli |-> 0]]

NoEntries == [key \in Keys |-> Undefined]
OnlyKey(key, value) == [k \in Keys |-> IF k = key THEN value ELSE Undefined]
NotEvaluated == [key \in Keys |-> [number |-> FALSE, string |-> << "not evaluated" >>, milli |-> 0]]

\* import App from './App': the imported modules are evaluated, config/env
\* among them, before the body of index.tsx runs.
ImportApp ==
  /\ bootPc = "start"
  /\ bootPc' = "imported"
  /\ envRaw' = EnvRaw(windowEnv, processEnv)
  /\ env' = EnvObject(EnvRaw(windowEnv, processEnv))
  /\ UNCHANGED << nodeEnv, windowEnv, processEnv, envConfigFile, envScript, renderCount >>
  /\ UNCHANGED << mapVars, providerVars, svcVars, fetchVars, dataVars >>

\* loadEnvScript: the script tag is created only in a production build
InProductionNever(nodeEnvValue) == FALSE
InProduction(nodeEnvValue) == nodeEnvValue = "production"

\* initApp() up to its await: loadEnvScript()
LoadEnvScript ==
  /\ bootPc = "imported"
  /\ IF InProduction(nodeEnv)
       THEN /\ envScript' = "pending"
            /\ bootPc' = "awaitEnv"
       ELSE /\ envScript' = envScript
            /\ bootPc' = "ready"
  /\ UNCHANGED << nodeEnv, windowEnv, processEnv, envConfigFile, envRaw, env, renderCount >>
  /\ UNCHANGED << mapVars, providerVars, svcVars, fetchVars, dataVars >>

\* /env-config.js has run (it assigns window._env_) and script.onload fires
EnvScriptLoaded ==
  /\ bootPc = "awaitEnv" /\ envScript = "pending"
  /\ envScript' = "loaded"
  /\ windowEnv' = envConfigFile
  /\ bootPc' = "ready"
  /\ UNCHANGED << nodeEnv, processEnv, envConfigFile, envRaw, env, renderCount >>
  /\ UNCHANGED << mapVars, providerVars, svcVars, fetchVars, dataVars >>

\* script.onerror fires
EnvScriptError ==
  /\ bootPc = "awaitEnv" /\ envScript = "pending"
  /\ envScript' = "error"
  /\ bootPc' = "ready"
  /\ UNCHANGED << nodeEnv, windowEnv, processEnv, envConfigFile, envRaw, env, renderCount >>
  /\ UNCHANGED << mapVars, providerVars, svcVars, fetchVars, dataVars >>

\* initApp() after its await: ReactDOM.render(...)
RenderApp ==
  /\ bootPc = "ready"
  /\ bootPc' = "rendered"
  /\ renderCount' = renderCount + 1
  /\ UNCHANGED << nodeEnv, windowEnv, processEnv, envConfigFile, envRaw, env, envScript >>
  /\ UNCHANGED << mapVars, providerVars, svcVars, fetchVars, dataVars >>

EnvNext ==
  \/ ImportApp
  \/ LoadEnvScript
  \/ EnvScriptLoaded
  \/ EnvScriptError
  \/ RenderApp

(***************************************************************************)
(* DataLayer                                                               *)
(***************************************************************************)
\* Data lists have at most MaxData points; at most MaxMarkers markers are created.
MaxData == 2
MaxMarkers == 7

DataIds == {"station1", "station2", "station3"}
\* const mockData
MockData == << "station1", "station2", "station3" >>
\* The lists setData may be given: points are identified by their id
DataLists == UNION { [1 .. n -> DataIds] : n \in 0 .. MaxData }

\* A circle marker: the n-th one created, for the point with this id
NoMarker == [n |-> 0, id |-> "none"]
NoPoints == [id \in DataIds |-> NoMarker]

\* One iteration of data.forEach in the marker-update effect
ProcessPoint(acc, id) ==
  IF acc.existingPoints[id] # NoMarker
    THEN [acc EXCEPT !.updatedPoints[id] = acc.existingPoints[id],
                     !.existingPoints[id] = NoMarker]
    ELSE LET marker == [n |-> acc.created + 1, id |-> id]
         IN [acc EXCEPT !.updatedPoints[id] = marker,
                        !.layerGroup = @ \cup {marker},
                        !.created = @ + 1]

RECURSIVE ForEachPoint(_, _)
ForEachPoint(acc, data) ==
  IF data = << >> THEN acc
  ELSE ForEachPoint(ProcessPoint(acc, Head(data)), Tail(data))

\* The marker-update effect run on data: markers of the ids that are left in
\* existingPoints are removed from the group, updatedPoints becomes the ref.
UpdateMarkers(data, group, ref, created) ==
  LET done == ForEachPoint([existingPoints |-> ref, updatedPoints |-> NoPoints,
                            layerGroup |-> group, created |-> created], data)
  IN [layerGroup |-> done.layerGroup \ { done.existingPoints[id] : id \in DataIds },
      pointLayersRef |-> done.updatedPoints,
      created |-> done.created]

\* The render of a data list: the marker-update effect runs on it
DataRendered(data, group, ref) ==
  LET result == UpdateMarkers(data, group, ref, markersCreated)
  IN /\ layerData' = data
     /\ layerGroup' = result.layerGroup
     /\ pointLayersRef' = result.pointLayersRef
     /\ markersCreated' = result.created

\* <DataLayer/> is mounted on the loaded map: the layer group is created, the
\* marker-update effect runs on the empty list, then setData(mockData) is rendered.
LayerMount ==
  /\ leafletMap # Null /\ ~layerMounted
  /\ markersCreated + Len(MockData) <= MaxMarkers
  /\ layerMounted' = TRUE
  /\ DataRendered(MockData, {}, NoPoints)
  /\ UNCHANGED << mapVars, providerVars, svcVars, fetchVars, envVars >>

\* setData(newData) and the render that follows
SetData(newData) ==
  /\ layerMounted
  /\ newData # layerData
  /\ markersCreated + Len(newData) <= MaxMarkers
  /\ DataRendered(newData, layerGroup, pointLayersRef)
  /\ UNCHANGED layerMounted
  /\ UNCHANGED << mapVars, providerVars, svcVars, fetchVars, envVars >>

\* The DataLayer is unmounted: the cleanup of the layer-group effect
LayerUnmount ==
  /\ layerMounted
  /\ layerMounted' = FALSE
  /\ layerData' = << >>
  /\ layerGroup' = {}
  /\ pointLayersRef' = NoPoints
  /\ UNCHANGED markersCreated
  /\ UNCHANGED << mapVars, providerVars, svcVars, fetchVars, envVars >>

DataNext ==
  \/ LayerMount
  \/ \E newData \in DataLists : SetData(newData)
  \/ LayerUnmount

(***************************************************************************)
(* Specifications                                                          *)
(***************************************************************************)
\* The state after construction of the provider and the container.
MapInit ==
  /\ mounted = FALSE
  /\ windowL \in BOOLEAN
  /\ windowWindyInit \in BOOLEAN
  /\ loadPc = "idle"
  /\ leafletScripts = 0
  /\ windyScripts = 0
  /\ leafletResolved = FALSE
  /\ scriptsLoaded = FALSE
  /\ initAttemptedRef = FALSE
  /\ loadQ = 0
  /\ initQ = << >>
  /\ windyInitCalls = 0
  /\ cbPending = FALSE
  /\ leafletMap = Null
  /\ windyInstance = Null
  /\ windyService = Null
  /\ isMapLoading = TRUE
  /\ mapError = NoError
  /\ currentZoom = 9 * ZoomUnit
  /\ ctxMarkers = << >>
  /\ showBackupLayer = FALSE
  /\ markers = << >>
  /\ distance = NoDistance
  /\ classProp = "none"
  /\ domClass = {}
  /\ lastZoomEvent = NoEvent
  /\ markersOnMap = {}
  /\ serviceCleanups = 0
  /\ unmounted = FALSE
  /\ selectedLayer = "wind"
  /\ visibleLayers = << >>
  \* the other subsystems are idle
  /\ service = "none"
  /\ windyApi = [map |-> FALSE, store |-> FALSE, overlays |-> FALSE]
  /\ store = [overlay |-> "wind", level |-> "surface"]
  /\ overlayLayerOnMap = FALSE
  /\ changeListeners = << >>
  /\ engineCalls = << >>
  /\ delivered = << >>
  /\ lastOp = [name |-> "none", arg |-> "none"]
  /\ markersLayer = NoLayer
  /\ opThrew = FALSE
  /\ engineThrew = FALSE
  /\ hookMounted = FALSE
  /\ options = [endpoint |-> << >>, autoFetch |-> FALSE]
  /\ state = [data |-> NoData, loading |-> FALSE, error |-> Null, timestamp |-> NoTimestamp]
  /\ inflight = << >>
  /\ networkRequests = 0
  /\ fetchStarts = 0
  /\ effectQ = 0
  /\ autoFetches = 0
  /\ now = 1
  /\ layerMounted = FALSE
  /\ layerData = << >>
  /\ layerGroup = {}
  /\ pointLayersRef = NoPoints
  /\ markersCreated = 0
  /\ nodeEnv = "development"
  /\ windowEnv = NoEntries
  /\ processEnv = NoEntries
  /\ envConfigFile = NoEntries
  /\ envRaw = [key \in Keys |-> << >>]
  /\ env = NotEvaluated
  /\ bootPc = "start"
  /\ envScript = "none"
  /\ renderCount = 0

\* The DataLayer is rendered by a MapContainer whose map has been loaded
DataInit ==
  /\ mounted = TRUE
  /\ windowL = TRUE
  /\ windowWindyInit = TRUE
  /\ loadPc = "done"
  /\ leafletScripts = 0
  /\ windyScripts = 0
  /\ leafletResolved = TRUE
  /\ scriptsLoaded = TRUE
  /\ initAttemptedRef = TRUE
  /\ loadQ = 0
  /\ initQ = << >>
  /\ windyInitCalls = 1
  /\ cbPending = FALSE
  /\ leafletMap = ApiMap(WindyAPI)
  /\ windyInstance = WindyAPI
  /\ windyService = "WindyService"
  /\ isMapLoading = FALSE
  /\ mapError = NoError
  /\ currentZoom = 9 * ZoomUnit
  /\ ctxMarkers = << >>
  /\ showBackupLayer = FALSE
  /\ markers = << >>
  /\ distance = NoDistance
  /\ classProp = ClassName("main", FALSE)
  /\ domClass = {"windy-container"}
  /\ lastZoomEvent = NoEvent
  /\ markersOnMap = {}
  /\ serviceCleanups = 0
  /\ unmounted = FALSE
  /\ selectedLayer = "wind"
  /\ visibleLayers = << >>
  \* the other subsystems are idle
  /\ service = "none"
  /\ windyApi = [map |-> FALSE, store |-> FALSE, overlays |-> FALSE]
  /\ store = [overlay |-> "wind", level |-> "surface"]
  /\ overlayLayerOnMap = FALSE
  /\ changeListeners = << >>
  /\ engineCalls = << >>
  /\ delivered = << >>
  /\ lastOp = [name |-> "none", arg |-> "none"]
  /\ markersLayer = NoLayer
  /\ opThrew = FALSE
  /\ engineThrew = FALSE
  /\ hookMounted = FALSE
  /\ options = [endpoint |-> << >>, autoFetch |-> FALSE]
  /\ state = [data |-> NoData, loading |-> FALSE, error |-> Null, timestamp |-> NoTimestamp]
  /\ inflight = << >>
  /\ networkRequests = 0
  /\ fetchStarts = 0
  /\ effectQ = 0
  /\ autoFetches = 0
  /\ now = 1
  /\ layerMounted = FALSE
  /\ layerData = << >>
  /\ layerGroup = {}
  /\ pointLayersRef = NoPoints
  /\ markersCreated = 0
  /\ nodeEnv = "development"
  /\ windowEnv = NoEntries
  /\ processEnv = NoEntries
  /\ envConfigFile = NoEntries
  /\ envRaw = [key \in Keys |-> << >>]
  /\ env = NotEvaluated
  /\ bootPc = "start"
  /\ envScript = "none"
  /\ renderCount = 0

\* No service has been constructed.
ServiceInit ==
  /\ service = "none"
  /\ windyApi = [map |-> FALSE, store |-> FALSE, overlays |-> FALSE]
  /\ store = [overlay |-> "wind", level |-> "surface"]
  /\ overlayLayerOnMap = FALSE
  /\ changeListeners = << >>
  /\ engineCalls = << >>
  /\ delivered = << >>
  /\ lastOp = [name |-> "none", arg |-> "none"]
  /\ markersLayer = NoLayer
  /\ opThrew = FALSE
  /\ engineThrew = FALSE
  \* the other subsystems are idle
  /\ mounted = FALSE
  /\ windowL = FALSE
  /\ windowWindyInit = FALSE
  /\ loadPc = "idle"
  /\ leafletScripts = 0
  /\ windyScripts = 0
  /\ leafletResolved = FALSE
  /\ scriptsLoaded = FALSE
  /\ initAttemptedRef = FALSE
  /\ loadQ = 0
  /\ initQ = << >>
  /\ windyInitCalls = 0
  /\ cbPending = FALSE
  /\ leafletMap = Null
  /\ windyInstance = Null
  /\ windyService = Null
  /\ isMapLoading = TRUE
  /\ mapError = NoError
  /\ currentZoom = 9 * ZoomUnit
  /\ ctxMarkers = << >>
  /\ showBackupLayer = FALSE
  /\ markers = << >>
  /\ distance = NoDistance
  /\ classProp = "none"
  /\ domClass = {}
  /\ lastZoomEvent = NoEvent
  /\ markersOnMap = {}
  /\ serviceCleanups = 0
  /\ unmounted = FALSE
  /\ selectedLayer = "wind"
  /\ visibleLayers = << >>
  /\ hookMounted = FALSE
  /\ options = [endpoint |-> << >>, autoFetch |-> FALSE]
  /\ state = [data |-> NoData, loading |-> FALSE, error |-> Null, timestamp |-> NoTimestamp]
  /\ inflight = << >>
  /\ networkRequests = 0
  /\ fetchStarts = 0
  /\ effectQ = 0
  /\ autoFetches = 0
  /\ now = 1
  /\ layerMounted = FALSE
  /\ layerData = << >>
  /\ layerGroup = {}
  /\ pointLayersRef = NoPoints
  /\ markersCreated = 0
  /\ nodeEnv = "development"
  /\ windowEnv = NoEntries
  /\ processEnv = NoEntries
  /\ envConfigFile = NoEntries
  /\ envRaw = [key \in Keys |-> << >>]
  /\ env = NotEvaluated
  /\ bootPc = "start"
  /\ envScript = "none"
  /\ renderCount = 0

\* The hook is about to be called with some options.
FetchInit ==
  /\ hookMounted = FALSE
  /\ options \in [endpoint : Endpoints, autoFetch : BOOLEAN]
  /\ state = [data |-> NoData, loading |-> options.autoFetch, error |-> Null,
              timestamp |-> NoTimestamp]
  /\ inflight = << >>
  /\ networkRequests = 0
  /\ fetchStarts = 0
  /\ effectQ = 0
  /\ autoFetches = 0
  /\ now = 1
  /\ layerMounted = FALSE
  /\ layerData = << >>
  /\ layerGroup = {}
  /\ pointLayersRef = NoPoints
  /\ markersCreated = 0
  \* the other subsystems are idle
  /\ mounted = FALSE
  /\ windowL = FALSE
  /\ windowWindyInit = FALSE
  /\ loadPc = "idle"
  /\ leafletScripts = 0
  /\ windyScripts = 0
  /\ leafletResolved = FALSE
  /\ scriptsLoaded = FALSE
  /\ initAttemptedRef = FALSE
  /\ loadQ = 0
  /\ initQ = << >>
  /\ windyInitCalls = 0
  /\ cbPending = FALSE
  /\ leafletMap = Null
  /\ windyInstance = Null
  /\ windyService = Null
  /\ isMapLoading = TRUE
  /\ mapError = NoError
  /\ currentZoom = 9 * ZoomUnit
  /\ ctxMarkers = << >>
  /\ showBackupLayer = FALSE
  /\ markers = << >>
  /\ distance = NoDistance
  /\ classProp = "none"
  /\ domClass = {}
  /\ lastZoomEvent = NoEvent
  /\ markersOnMap = {}
  /\ serviceCleanups = 0
  /\ unmounted = FALSE
  /\ selectedLayer = "wind"
  /\ visibleLayers = << >>
  /\ service = "none"
  /\ windyApi = [map |-> FALSE, store |-> FALSE, overlays |-> FALSE]
  /\ store = [overlay |-> "wind", level |-> "surface"]
  /\ overlayLayerOnMap = FALSE
  /\ changeListeners = << >>
  /\ engineCalls = << >>
  /\ delivered = << >>
  /\ lastOp = [name |-> "none", arg |-> "none"]
  /\ markersLayer = NoLayer
  /\ opThrew = FALSE
  /\ engineThrew = FALSE
  /\ nodeEnv = "development"
  /\ windowEnv = NoEntries
  /\ processEnv = NoEntries
  /\ envConfigFile = NoEntries
  /\ envRaw = [key \in Keys |-> << >>]
  /\ env = NotEvaluated
  /\ bootPc = "start"
  /\ envScript = "none"
  /\ renderCount = 0

\* The page before index.tsx runs: one of the settings is given values at
\* build time, in the page (window._env_) and in /env-config.js.
EnvInit ==
  /\ nodeEnv \in {"production", "development"}
  /\ \E key \in Keys :
       /\ windowEnv \in { OnlyKey(key, v) : v \in EnvValues }
       /\ processEnv \in { OnlyKey(key, v) : v \in EnvValues }
       /\ envConfigFile \in { OnlyKey(key, v) : v \in EnvConfigValues }
  /\ envRaw = [key \in Keys |-> << >>]
  /\ env = NotEvaluated
  /\ bootPc = "start"
  /\ envScript = "none"
  /\ renderCount = 0
  \* the other subsystems are idle
  /\ mounted = FALSE
  /\ windowL = FALSE
  /\ windowWindyInit = FALSE
  /\ loadPc = "idle"
  /\ leafletScripts = 0
  /\ windyScripts = 0
  /\ leafletResolved = FALSE
  /\ scriptsLoaded = FALSE
  /\ initAttemptedRef = FALSE
  /\ loadQ = 0
  /\ initQ = << >>
  /\ windyInitCalls = 0
  /\ cbPending = FALSE
  /\ leafletMap = Null
  /\ windyInstance = Null
  /\ windyService = Null
  /\ isMapLoading = TRUE
  /\ mapError = NoError
  /\ currentZoom = 9 * ZoomUnit
  /\ ctxMarkers = << >>
  /\ showBackupLayer = FALSE
  /\ markers = << >>
  /\ distance = NoDistance
  /\ classProp = "none"
  /\ domClass = {}
  /\ lastZoomEvent = NoEvent
  /\ markersOnMap = {}
  /\ serviceCleanups = 0
  /\ unmounted = FALSE
  /\ selectedLayer = "wind"
  /\ visibleLayers = << >>
  /\ service = "none"
  /\ windyApi = [map |-> FALSE, store |-> FALSE, overlays |-> FALSE]
  /\ store = [overlay |-> "wind", level |-> "surface"]
  /\ overlayLayerOnMap = FALSE
  /\ changeListeners = << >>
  /\ engineCalls = << >>
  /\ delivered = << >>
  /\ lastOp = [name |-> "none", arg |-> "none"]
  /\ markersLayer = NoLayer
  /\ opThrew = FALSE
  /\ engineThrew = FALSE
  /\ hookMounted = FALSE
  /\ options = [endpoint |-> << >>, autoFetch |-> FALSE]
  /\ state = [data |-> NoData, loading |-> FALSE, error |-> Null, timestamp |-> NoTimestamp]
  /\ inflight = << >>
  /\ networkRequests = 0
  /\ fetchStarts = 0
  /\ effectQ = 0
  /\ autoFetches = 0
  /\ now = 1
  /\ layerMounted = FALSE
  /\ layerData = << >>
  /\ layerGroup = {}
  /\ pointLayersRef = NoPoints
  /\ markersCreated = 0

\* The bootstrap in a page whose window._env_ is not set before /env-config.js runs
BootInit ==
  /\ nodeEnv \in {"production", "development"}
  /\ \E key \in Keys :
       /\ windowEnv = NoEntries
       /\ processEnv \in { OnlyKey(key, v) : v \in EnvValues }
       /\ envConfigFile \in { OnlyKey(key, v) : v \in EnvConfigValues }
  /\ envRaw = [key \in Keys |-> << >>]
  /\ env = NotEvaluated
  /\ bootPc = "start"
  /\ envScript = "none"
  /\ renderCount = 0
  \* the other subsystems are idle
  /\ mounted = FALSE
  /\ windowL = FALSE
  /\ windowWindyInit = FALSE
  /\ loadPc = "idle"
  /\ leafletScripts = 0
  /\ windyScripts = 0
  /\ leafletResolved = FALSE
  /\ scriptsLoaded = FALSE
  /\ initAttemptedRef = FALSE
  /\ loadQ = 0
  /\ initQ = << >>
  /\ windyInitCalls = 0
  /\ cbPending = FALSE
  /\ leafletMap = Null
  /\ windyInstance = Null
  /\ windyService = Null
  /\ isMapLoading = TRUE
  /\ mapError = NoError
  /\ currentZoom = 9 * ZoomUnit
  /\ ctxMarkers = << >>
  /\ showBackupLayer = FALSE
  /\ markers = << >>
  /\ distance = NoDistance
  /\ classProp = "none"
  /\ domClass = {}
  /\ lastZoomEvent = NoEvent
  /\ markersOnMap = {}
  /\ serviceCleanups = 0
  /\ unmounted = FALSE
  /\ selectedLayer = "wind"
  /\ visibleLayers = << >>
  /\ service = "none"
  /\ windyApi = [map |-> FALSE, store |-> FALSE, overlays |-> FALSE]
  /\ store = [overlay |-> "wind", level |-> "surface"]
  /\ overlayLayerOnMap = FALSE
  /\ changeListeners = << >>
  /\ engineCalls = << >>
  /\ delivered = << >>
  /\ lastOp = [name |-> "none", arg |-> "none"]
  /\ markersLayer = NoLayer
  /\ opThrew = FALSE
  /\ engineThrew = FALSE
  /\ hookMounted = FALSE
  /\ options = [endpoint |-> << >>, autoFetch |-> FALSE]
  /\ state = [data |-> NoData, loading |-> FALSE, error |-> Null, timestamp |-> NoTimestamp]
  /\ inflight = << >>
  /\ networkRequests = 0
  /\ fetchStarts = 0
  /\ effectQ = 0
  /\ autoFetches = 0
  /\ now = 1
  /\ layerMounted = FALSE
  /\ layerData = << >>
  /\ layerGroup = {}
  /\ pointLayersRef = NoPoints
  /\ markersCreated = 0

SpecMap == MapInit /\ [][MapNext]_vars

\* The scheduling of the browser's event loop: a pending effect or callback runs.
FairSpecMap == MapInit /\ [][MapNext]_vars /\ WF_vars(MapNext)

SpecProvider == MapInit /\ [][ProviderNext]_vars

SpecData == DataInit /\ [][DataNext]_vars

SpecService == ServiceInit /\ [][ServiceNext]_vars

SpecFetch == FetchInit /\ [][FetchNext]_vars

SpecEnv == EnvInit /\ [][EnvNext]_vars

\* Once index.tsx has been evaluated, initApp runs to its await, the browser
\* fires load or error on the script element it was given, and the
\* continuation of the await is run.
FairSpecEnv ==
  /\ BootInit /\ [][EnvNext]_vars
  /\ WF_vars(LoadEnvScript)
  /\ WF_vars(EnvScriptLoaded \/ EnvScriptError)
  /\ WF_vars(RenderApp)

(***************************************************************************)
(* Claims about the MapContainer / MapProvider (checked under SpecMap,     *)
(* C1 under FairSpecMap).                                                  *)
(***************************************************************************)
\* The view the component returns in the current state.
CurrentView == View(isMapLoading, mapError)
WindyHidden == "windy-hidden" \in domClass

\* C1: once a script-load or initialisation failure has set mapError, the
\* MapContainer eventually renders the error banner (the error view).
C1_ErrorBannerEventually == (mapError # NoError) ~> (CurrentView = "error")

\* C2: window.windyInit is invoked only when scriptsLoaded is true, the Leaflet
\* load has resolved and window.windyInit is a function; and the Windy script
\* is never injected before the Leaflet load has resolved.
C2_InitOnlyAfterScripts ==
  [][ /\ windyInitCalls' > windyInitCalls =>
           scriptsLoaded /\ leafletResolved /\ windowWindyInit
      /\ windyScripts' > windyScripts => leafletResolved' ]_vars
C2_Witness == windyInitCalls = 1 /\ leafletScripts = 1 /\ windyScripts = 1

\* C3: window.windyInit is invoked at most once during the lifetime of a
\* mounted MapContainer, also when the call throws and resets initAttemptedRef.
C3_WindyInitAtMostOnce == windyInitCalls <= 1
C3_Witness ==
  windyInitCalls = 1 /\ ~initAttemptedRef /\ mapError = "windyInit threw" /\ initQ = << >>

\* C4: after a script load failure nothing is retried: no script is injected
\* again, scriptsLoaded stays false, windyInit is never invoked and mapError
\* stays non-null.
C4_NoRetryState == ~scriptsLoaded /\ windyInitCalls = 0 /\ mapError # NoError
C4_NoRetry ==
  /\ [](loadPc = "failed" => C4_NoRetryState)
  /\ [][ loadPc = "failed" =>
           /\ loadPc' = "failed"
           /\ leafletScripts' = leafletScripts
           /\ windyScripts' = windyScripts
           /\ C4_NoRetryState' ]_vars
C4_Witness == loadPc = "failed" /\ windyScripts = 1 /\ initQ = << >> /\ loadQ = 0

\* C5: after the handler of a redrawFinished or zoomend event has run with
\* zoom z: currentZoom = z, showBackupLayer = (z > 10), and #windy carries
\* 'windy-hidden' exactly when z > 10.
C5_ViewSwitch ==
  lastZoomEvent.kind # "none" =>
    /\ currentZoom = lastZoomEvent.zoom
    /\ showBackupLayer = (lastZoomEvent.zoom > 10 * ZoomUnit)
    /\ classProp # "none"
    /\ WindyHidden <=> (lastZoomEvent.zoom > 10 * ZoomUnit)
C5_Witness ==
  /\ lastZoomEvent = [kind |-> "redrawFinished", zoom |-> 10 * ZoomUnit]
  /\ ~WindyHidden /\ ~showBackupLayer /\ CurrentView = "main"

\* C6: after the map has been clicked twice, distance is the distance between
\* the first clicked point and the second (so it is non-null).
C6_DistanceAfterTwoClicks ==
  Len(ctxMarkers) >= 2 =>
    /\ distance # NoDistance
    /\ distance = CalculateDistance(ctxMarkers[1], ctxMarkers[2])

\* C13: when the windyInit callback runs and constructing the WindyService
\* throws, the step ends with isMapLoading false, windyInstance and leafletMap
\* set, windyService null, mapError null and MapControls not shown.
C13_ServiceFailureStillLoads ==
  [][(cbPending /\ ~cbPending' /\ windyService' = Null) =>
       /\ isMapLoading' = FALSE
       /\ windyInstance' = WindyAPI
       /\ leafletMap' = ApiMap(WindyAPI)
       /\ mapError' = NoError
       /\ ~MapControlsShown(View(isMapLoading', mapError'), windyService',
                            showBackupLayer')]_vars
C13_Witness ==
  /\ windyInitCalls = 1 /\ ~cbPending /\ windyService = Null
  /\ windyInstance = WindyAPI /\ CurrentView = "main"

\* C21: whenever isMapLoading is false, windyInstance is set and leafletMap is
\* that instance's map; and the main view is rendered only after the windyInit
\* callback has fired (it is what sets windyInstance).
C21_LoadedMeansInitialized ==
  /\ ~isMapLoading =>
       /\ windyInstance # Null
       /\ leafletMap = ApiMap(windyInstance)
       /\ windyInitCalls = 1 /\ ~cbPending
  /\ (mounted /\ CurrentView = "main") => windyInstance # Null
C21_Witness ==
  /\ mounted /\ ~isMapLoading /\ CurrentView = "main"
  /\ windyInstance = WindyAPI /\ leafletMap = ApiMap(WindyAPI) /\ windyService # Null

\* C22: at every zoom the map has taken, exactly one of the two views is
\* displayed in the main view: the weather overlay (#windy without
\* 'windy-hidden') when the zoom is at most 10, and the tiles of the backup
\* layer when the zoom is above 10; so there is no zoom at which the weather
\* overlay is hidden and the backup layer shows no tiles.
C22_ZoomHandled ==
  /\ mounted /\ CurrentView = "main" /\ leafletMap # Null
  /\ lastZoomEvent.kind # "none"
C22_ExactlyOneView ==
  C22_ZoomHandled =>
    /\ currentZoom <= 10 * ZoomUnit =>
          ~WindyHidden /\ ~BackupTilesShown(CurrentView, leafletMap, currentZoom)
    /\ currentZoom > 10 * ZoomUnit =>
          WindyHidden /\ BackupTilesShown(CurrentView, leafletMap, currentZoom)
\* The part of C22 that the code keeps: outside the zooms above 10 whose tile
\* zoom is 10, exactly one of the two views is displayed.
C22_ExactlyOneViewOutsideGap ==
  (C22_ZoomHandled /\ ~(currentZoom > 10 * ZoomUnit /\ TileZoom(currentZoom) < minZoom)) =>
    (WindyHidden <=> BackupTilesShown(CurrentView, leafletMap, currentZoom))
C22_GapReached ==
  /\ C22_ZoomHandled /\ currentZoom = 10 * ZoomUnit + 1
  /\ WindyHidden /\ ~BackupTilesShown(CurrentView, leafletMap, currentZoom)

(***************************************************************************)
(* Claims about the WindyService (checked under SpecService).              *)
(***************************************************************************)
\* C7: on an engine that has a store, each of setActiveLayer(id),
\* setAltitudeLevel(level) and toggleOverlayVisibility(visible) results in a
\* call on the engine's store or event bus that carries the requested value.
C7_PassThrough ==
  (service = "constructed" /\ windyApi.store) =>
    /\ lastOp.name = "setActiveLayer" =>
         << "store.set", "overlay", lastOp.arg >> \in SeqRange(engineCalls)
    /\ lastOp.name = "setAltitudeLevel" =>
         << "store.set", "level", lastOp.arg >> \in SeqRange(engineCalls)
    /\ lastOp.name = "toggleOverlayVisibility" =>
         \E call \in SeqRange(engineCalls) : call[1] \in {"store.set", "broadcast.fire"}

\* C16: after addWeatherMarkers(d) on a service with a map the markers layer
\* holds exactly one marker per element of d, whatever it held before (none
\* for an empty d); on a service constructed without a map nothing changes.
C16_MarkersReplaced ==
  (service = "constructed" /\ lastOp.name = "addWeatherMarkers") =>
    IF windyApi.map
      THEN markersLayer.created /\ markersLayer.layers = lastOp.arg
      ELSE markersLayer = NoLayer /\ engineCalls = << >>
C16_Witness ==
  /\ service = "constructed" /\ lastOp.name = "addWeatherMarkers" /\ windyApi.map
  /\ Len(markersLayer.layers) = 1

C18_ListenerIsolation ==
  (service = "constructed" /\ lastOp.name \in {"setAltitudeLevel", "engineEvent"}
     /\ windyApi.store) =>
    /\ Len(delivered) = Len(changeListeners)
    /\ \A i \in 1 .. Len(delivered) : delivered[i].listener = changeListeners[i]
    /\ ~opThrew
C18_Witness ==
  /\ service = "constructed" /\ lastOp.name = "setAltitudeLevel"
  /\ Len(delivered) = 3 /\ delivered[1].listener = "thrower"
  /\ delivered[2].listener = "listenerA"

\* The listeners other than cb, in their order
Others(listeners, cb) == SelectSeq(listeners, LAMBDA l : l # cb)

\* C19: removeChangeListener(cb) leaves no registration of cb, however often it
\* was added, and keeps the other listeners in their order; no notification
\* is delivered to a listener that is not registered; and when the call
\* follows addChangeListener(cb) it restores the list that preceded the add
\* exactly when cb was not in that list.
C19_RemoveListener ==
  /\ [](\A i \in 1 .. Len(delivered) : delivered[i].listener \in SeqRange(changeListeners))
  /\ [][\A cb \in Listeners :
          RemoveChangeListener(cb) =>
            /\ cb \notin SeqRange(changeListeners')
            /\ Others(changeListeners', cb) = Others(changeListeners, cb)
            /\ (lastOp.name = "addChangeListener" /\ lastOp.arg = cb) =>
                 LET before == SubSeq(changeListeners, 1, Len(changeListeners) - 1)
                 IN (changeListeners' = before) <=> (cb \notin SeqRange(before))]_vars
C19_Witness ==
  /\ service = "constructed"
  /\ lastOp.name = "removeChangeListener" /\ lastOp.arg = "listenerA"
  /\ changeListeners = << "thrower", "listenerB" >>

(***************************************************************************)
(* Claims about useDataFetching (checked under SpecFetch).                 *)
(***************************************************************************)
CallStarts == Len(inflight') > Len(inflight)
CallCompletes == Len(inflight') < Len(inflight)

\* What every call leaves no request behind and completes with.
C8_Completion ==
  /\ networkRequests' = 0
  /\ CallStarts => state'.loading
  /\ CallCompletes =>
       /\ state'.data = GetDataPoints(SplitPop(options.endpoint))
       /\ state'.loading = FALSE
       /\ state'.error = Null
       /\ state'.timestamp # NoTimestamp

\* C8 (as claimed): in mock mode every call issues no request and completes
\* with data = getDataPoints(last segment of endpoint), loading = false,
\* error = null and a timestamp; loading is true from the start of a call to
\* its completion.
C8_LoadingUntilCompletion ==
  /\ [][C8_Completion]_vars
  /\ [](inflight # << >> => state.loading)

\* C8 (amended): as above, but loading is true from the start of a call until
\* the next completion of any call: it is set by every start and cleared only
\* by a completion.
C8_MockFetch ==
  [][ /\ C8_Completion
      /\ (state.loading /\ ~state'.loading) => CallCompletes ]_vars
C8_Witness ==
  /\ options.endpoint = << "api", "/", "pollution-data" >>
  /\ state.data = << "pollution1", "pollution2", "pollution3" >>
  /\ ~state.loading /\ inflight # << >>

\* C20: with autoFetch = true the autoFetch effect starts one fetch, on mount,
\* and none afterwards: every other fetch is started by an explicit call of
\* fetchData, refetch or fetchWithParams.
C20_OneAutoFetch == autoFetches <= 1

(***************************************************************************)
(* Claims about index.tsx and config/env (checked under SpecEnv).          *)
(***************************************************************************)
RuntimeSet(key) == windowEnv[key].defined /\ windowEnv[key].value # << >>

\* The string begins, after white space and a sign, with a digit or with "."
\* and a digit.
StartsNumber(chars) ==
  LET trimmed == SkipSpaces(chars)
      unsigned == IF trimmed # << >> /\ Head(trimmed) \in {"-", "+"}
                  THEN Tail(trimmed) ELSE trimmed
  IN /\ unsigned # << >>
     /\ \/ IsDigit(unsigned[1])
        \/ unsigned[1] = "." /\ Len(unsigned) >= 2 /\ IsDigit(unsigned[2])

\* C9: getEnvVar returns the runtime value when it is a non-empty string, else
\* the build-time value when defined (even if empty), else the fallback; a
\* numeric setting whose string does not parse as a number takes its default.
C9_Precedence ==
  [][ (bootPc = "start" /\ bootPc' = "imported") =>
        \A key \in Keys :
          /\ RuntimeSet(key) => envRaw'[key] = windowEnv[key].value
          /\ (~RuntimeSet(key) /\ processEnv[key].defined) =>
               envRaw'[key] = processEnv[key].value
          /\ (~RuntimeSet(key) /\ ~processEnv[key].defined) => envRaw'[key] = Fallback(key)
          /\ (key \in NumericKeys /\ ~StartsNumber(envRaw'[key])) =>
               (env'[key].number /\ env'[key].milli = NumberFallback(key))
          /\ key \notin NumericKeys => env'[key].string = envRaw'[key] ]_vars
C9_Witness ==
  /\ bootPc = "imported"
  /\ windowEnv["MAP_CENTER_LAT"] = Str(<< >>)
  /\ processEnv["MAP_CENTER_LAT"] = Str(<< >>)
  /\ envRaw["MAP_CENTER_LAT"] = << >>
  /\ env["MAP_CENTER_LAT"].milli = 10 * Milli + 835

\* C10: in production the values /env-config.js places in window._env_ are the
\* ones the env object uses.
C10_RuntimeValuesUsed ==
  (nodeEnv = "production" /\ envScript = "loaded" /\ bootPc = "rendered") =>
     \A key \in Keys :
        (envConfigFile[key].defined /\ envConfigFile[key].value # << >>) =>
           envRaw[key] = envConfigFile[key].value

\* C11: ReactDOM.render is never called twice, and once index.tsx runs it is
\* eventually called; in production it is called only after the env-config
\* script's load or error event has fired; after the error event the
\* application is still rendered.
C11_RenderedOnce ==
  /\ [](renderCount <= 1)
  /\ [][renderCount' # renderCount =>
         (nodeEnv = "production" => envScript \in {"loaded", "error"})]_vars
  /\ (envScript = "error") ~> (renderCount = 1)
  /\ (bootPc = "imported") ~> (renderCount = 1)
C11_Witness == renderCount = 1 /\ nodeEnv = "production" /\ envScript = "error"

(***************************************************************************)
(* Claims about the MapProvider (checked under SpecProvider).              *)
(***************************************************************************)
\* C12: the MapProvider's cleanup (click markers removed from the map,
\* windyService.cleanup() called) takes effect only in the step that unmounts
\* the provider, never while it stays mounted.
C12_CleanupOnlyOnUnmount ==
  [][(serviceCleanups' # serviceCleanups \/ ~(markersOnMap \subseteq markersOnMap'))
       => unmounted']_vars

\* C14: resetMapState sets mapError to null and isMapLoading to true and leaves
\* leafletMap, windyInstance, windyService, markers, selectedLayer,
\* visibleLayers and currentZoom unchanged.
C14_ResetMapStateFrame ==
  [][ResetMapState =>
       /\ mapError' = NoError /\ isMapLoading' = TRUE
       /\ UNCHANGED << leafletMap, windyInstance, windyService, ctxMarkers,
                       selectedLayer, visibleLayers, currentZoom >>]_vars
C14_ResetDone ==
  /\ isMapLoading /\ mapError = NoError /\ leafletMap # Null /\ windyService # Null
  /\ ctxMarkers # << >> /\ selectedLayer = "temp" /\ visibleLayers # << >>
  /\ currentZoom = 12 * ZoomUnit

(***************************************************************************)
(* Claims about the DataLayer (checked under SpecData).                    *)
(***************************************************************************)
MarkersOf(id) == { marker \in layerGroup : marker.id = id }
InData(id) == \E i \in 1 .. Len(layerData) : layerData[i] = id

\* C15: after each run of the marker-update effect the layer group holds
\* exactly one circle marker for each id present in data and none for the
\* other ids, and pointLayersRef maps each id of data to its marker in the
\* group and no other id.
C15_Reconciled ==
  layerMounted =>
    \A id \in DataIds :
      IF InData(id)
        THEN MarkersOf(id) = {pointLayersRef[id]}
        ELSE MarkersOf(id) = {} /\ pointLayersRef[id] = NoMarker

=============================================================================
